---- MODULE Spec2Model ----
(***************************************************************************)
(* Model of the grimoire spell templating engine (parse.go): ParseSpell    *)
(* splits a raw spell into literal and parameter segments, Reconstruct     *)
(* substitutes values for the parameter segments.                          *)
(*                                                                         *)
(* A Go string is a sequence of one-character strings.  Go's 0-based,      *)
(* half-open indices are kept: s[lo:hi] is Slice(s, lo, hi).               *)
(***************************************************************************)
EXTENDS Integers, Sequences, FiniteSets, TLC

VARIABLES spell, pc, parsed, paramValues, output,   \* the engine and its caller
          stdin, promptAt, executed, castErr,        \* the cast flow
          procs,                                     \* concurrent callers
          store, added,                              \* the spell directory
          options, currentIndex, keys, selected,       \* the tab-cycling prompt
          term, sigc, handler, proc, signals         \* terminal, signals, process

vars == <<spell, pc, parsed, paramValues, output,
          stdin, promptAt, executed, castErr, procs, store, added,
          options, currentIndex, keys, selected, term, sigc, handler, proc, signals>>

engineVars == <<spell, pc, parsed, paramValues, output>>

castVars == <<stdin, promptAt, executed, castErr>>

concVars == <<procs>>

fileVars == <<store, added>>

promptVars == <<options, currentIndex, keys, selected, term, sigc, handler, proc, signals>>

(***************************************************************************)
(* Bounds of the explored inputs.                                          *)
(***************************************************************************)
\* longest raw spell of the exhaustive part of the inputs
MaxLen == 5
\* most pieces (marker or literal) of a composed raw spell
MaxPieces == 3
\* most default values written in one marker of a composed raw spell
MaxDefaults == 2
\* most pieces of a raw spell that is cast
MaxCastPieces == 2
\* most lines the user types before the input ends
MaxResponses == 2
\* most pieces of the raw spell the concurrent callers work on
MaxConcPieces == 2
\* most characters of the name of a spell that is added
MaxNameLen == 1
\* most spells added to the spell path
MaxAdds == 2
\* most pieces of a spell whose slots are substituted
MaxSubstPieces == 3
\* most options offered by the tab-cycling prompt
MaxOptions == 3
\* most keys read by the prompt that do not end it
MaxKeys == 3
\* most signals that arrive while the process runs
MaxSignals == 2

(***************************************************************************)
(* Characters.  VT stands for the vertical tab: white space to             *)
(* strings.TrimSpace (unicode.IsSpace) but not in the regexp class \s,     *)
(* which is [\t\n\f\r ].                                                   *)
(***************************************************************************)
VT == "\\v"

Alphabet == {"<", ">", "=", ";", " ", VT, "a"}

\* regexp class \s of paramRegex
IsReSpace(c) == c = " "

\* unicode.IsSpace, as used by strings.TrimSpace
IsSpace(c) == c \in {" ", VT}

\* s[lo:hi]
Slice(s, lo, hi) == SubSeq(s, lo + 1, hi)

Max(S) == CHOOSE x \in S : \A y \in S : y <= x

Min(S) == CHOOSE x \in S : \A y \in S : x <= y

(***************************************************************************)
(* paramRegex = `<([^\s][^<>]*[^\s])>` matched at byte offset i of s.      *)
(* j is the offset of the last character of the group; the greedy star     *)
(* makes the regexp prefer the longest run, so the match ends at the       *)
(* largest such j.  The star stops at the first '<' or '>' after the       *)
(* first character of the group; that character may itself be the last     *)
(* one of the group.                                                       *)
(***************************************************************************)
paramRegexEnds(s, i) ==
    IF i + 4 > Len(s) THEN {}
    ELSE IF s[i + 1] # "<" \/ IsReSpace(s[i + 2]) THEN {}
    ELSE LET stops == { k \in (i + 3)..(Len(s) - 2) : s[k] \in {"<", ">"} }
             last == IF stops = {} THEN Len(s) - 2 ELSE Min(stops) - 1
         IN  { j \in (i + 2)..last : ~IsReSpace(s[j + 1]) /\ s[j + 2] = ">" }

paramRegex(s, i) ==
    LET j == Max(paramRegexEnds(s, i))
    IN  <<i, j + 2, i + 1, j + 1>>

\* paramRegex.FindAllStringSubmatchIndex(s, -1), scanning from offset pos:
\* the leftmost match, then the matches after its end
RECURSIVE FindAllFrom(_, _)
FindAllFrom(s, pos) ==
    IF pos >= Len(s) THEN <<>>
    ELSE IF s[pos + 1] # "<" \/ paramRegexEnds(s, pos) = {} THEN FindAllFrom(s, pos + 1)
    ELSE LET m == paramRegex(s, pos)
         IN  <<m>> \o FindAllFrom(s, m[2])

FindAllStringSubmatchIndex(s) == FindAllFrom(s, 0)

(***************************************************************************)
(* The strings package.                                                    *)
(***************************************************************************)
RECURSIVE TrimLeft(_)
TrimLeft(s) ==
    IF s # <<>> /\ IsSpace(Head(s)) THEN TrimLeft(Tail(s)) ELSE s

RECURSIVE TrimRight(_)
TrimRight(s) ==
    IF s # <<>> /\ IsSpace(s[Len(s)]) THEN TrimRight(SubSeq(s, 1, Len(s) - 1)) ELSE s

TrimSpace(s) == TrimRight(TrimLeft(s))

\* mutant of SplitN2: cut at the last sep
SplitNLast(s, sep) ==
    LET at == { i \in 1..Len(s) : s[i] = sep }
    IN  IF at = {} THEN <<s>>
        ELSE <<SubSeq(s, 1, Max(at) - 1), SubSeq(s, Max(at) + 1, Len(s))>>

\* strings.SplitN(s, sep, 2): cut at the first sep, if any
SplitN2(s, sep) ==
    LET at == { i \in 1..Len(s) : s[i] = sep }
    IN  IF at = {} THEN <<s>>
        ELSE <<SubSeq(s, 1, Min(at) - 1), SubSeq(s, Min(at) + 1, Len(s))>>

\* strings.Split(s, sep): cut at every sep; a string without sep is one element
RECURSIVE Split(_, _)
Split(s, sep) ==
    LET at == { i \in 1..Len(s) : s[i] = sep }
    IN  IF at = {} THEN <<s>>
        ELSE <<SubSeq(s, 1, Min(at) - 1)>> \o Split(SubSeq(s, Min(at) + 1, Len(s)), sep)

\* strings.Join(parts, "")
RECURSIVE Join(_)
Join(parts) == IF parts = <<>> THEN <<>> ELSE Head(parts) \o Join(Tail(parts))

(***************************************************************************)
(* parse.go                                                                *)
(***************************************************************************)
NoError == [kind |-> "nil", name |-> <<>>]

DuplicateDefault(name) == [kind |-> "DuplicateDefault", name |-> name]

MissingValue(name) == [kind |-> "MissingValue", name |-> name]

\* the nil *SpellSegments
NilSegments == [isNil |-> TRUE, Segments |-> <<>>, ParamIndices |-> <<>>, Params |-> <<>>]

Param(name, defaultValues) == [Name |-> name, DefaultValues |-> defaultValues]

SpellSegments(segments, paramIndices, params) ==
    [isNil |-> FALSE, Segments |-> segments, ParamIndices |-> paramIndices, Params |-> params]

extractParamNameAndDefaults(s, paramStart, paramEnd) ==
    LET paramText == TrimSpace(Slice(s, paramStart, paramEnd))
        parts == SplitN2(paramText, "=")
        name == TrimSpace(parts[1])
        defaultValues == IF Len(parts) > 1 THEN Split(parts[2], ";") ELSE <<>>
    IN  [name |-> name, defaultValues |-> defaultValues]

\* the most default values a repeated name may write without being rejected
RepeatDefaultsAllowed == 1

\* mutant of BeforeText: the text before a match is appended also when empty
BeforeTextAlways(s, segments, lastEnd, start) ==
    Append(segments, Slice(s, lastEnd, start))

\* the literal text between the previous match and this one, if any
BeforeText(s, segments, lastEnd, start) ==
    IF start > lastEnd THEN Append(segments, Slice(s, lastEnd, start)) ELSE segments

\* the repeated name is rejected
RejectRepeat(paramMap, name, defaultValues) ==
    name \in DOMAIN paramMap /\ Len(defaultValues) > RepeatDefaultsAllowed

\* mutant of RecordParam: a later occurrence overwrites the recorded defaults
RecordParamLastWins(st, name, defaultValues) ==
    [st EXCEPT !.paramMap = (name :> Param(name, defaultValues)) @@ st.paramMap,
               !.paramOrder = IF name \in DOMAIN st.paramMap THEN st.paramOrder
                              ELSE Append(st.paramOrder, name)]

\* mutant of RecordParam: every occurrence is appended to the order
RecordParamEveryTime(st, name, defaultValues) ==
    [st EXCEPT !.paramMap = IF name \in DOMAIN st.paramMap THEN st.paramMap
                            ELSE (name :> Param(name, defaultValues)) @@ st.paramMap,
               !.paramOrder = Append(st.paramOrder, name)]

\* a name seen for the first time is recorded with its defaults
RecordParam(st, name, defaultValues) ==
    IF name \in DOMAIN st.paramMap THEN st
    ELSE [st EXCEPT !.paramMap = (name :> Param(name, defaultValues)) @@ st.paramMap,
                    !.paramOrder = Append(st.paramOrder, name)]

\* the name becomes a segment and its index a parameter index
AddSlot(st, name) ==
    LET segments == Append(st.segments, name)
    IN  [st EXCEPT !.segments = segments,
                   !.paramIndices = Append(st.paramIndices, Len(segments) - 1)]

\* mutant of TrailingText: the text after the last match is dropped
TrailingTextDropped(s, segments, lastEnd) == segments

\* the text after the last match, if any
TrailingText(s, segments, lastEnd) ==
    IF lastEnd < Len(s) THEN Append(segments, Slice(s, lastEnd, Len(s))) ELSE segments

\* paramMap as a slice in the order of first occurrence
ParamsInOrder(paramMap, paramOrder) ==
    [i \in 1..Len(paramOrder) |-> paramMap[paramOrder[i]]]

\* the loop over matches, from match number k on, and the return after it
RECURSIVE ParseLoop(_, _, _, _)
ParseLoop(s, matches, k, st) ==
    IF k > Len(matches)
    THEN [ss |-> SpellSegments(TrailingText(s, st.segments, st.lastEnd),
                               st.paramIndices,
                               ParamsInOrder(st.paramMap, st.paramOrder)),
          err |-> NoError]
    ELSE LET match == matches[k]
             start == match[1]
             end == match[2]
             paramStart == match[3]
             paramEnd == match[4]
             st1 == [st EXCEPT !.segments = BeforeText(s, st.segments, st.lastEnd, start)]
         IN  IF paramStart >= 0 /\ paramEnd >= 0
             THEN LET nd == extractParamNameAndDefaults(s, paramStart, paramEnd)
                  IN  IF RejectRepeat(st1.paramMap, nd.name, nd.defaultValues)
                      THEN [ss |-> NilSegments, err |-> DuplicateDefault(nd.name)]
                      ELSE ParseLoop(s, matches, k + 1,
                               [AddSlot(RecordParam(st1, nd.name, nd.defaultValues), nd.name)
                                   EXCEPT !.lastEnd = end])
             ELSE ParseLoop(s, matches, k + 1, [st1 EXCEPT !.lastEnd = end])

\* mutant of ParseSpell: a spell without a match yields no segment
ParseSpellNoMatchEmpty(s) ==
    LET matches == FindAllStringSubmatchIndex(s)
    IN  IF Len(matches) = 0
        THEN [ss |-> SpellSegments(<<>>, <<>>, <<>>), err |-> NoError]
        ELSE ParseLoop(s, matches, 1,
                 [segments |-> <<>>, paramIndices |-> <<>>, paramMap |-> <<>>,
                  paramOrder |-> <<>>, lastEnd |-> 0])

ParseSpell(s) ==
    LET matches == FindAllStringSubmatchIndex(s)
    IN  IF Len(matches) = 0
        THEN [ss |-> SpellSegments(<<s>>, <<>>, <<>>), err |-> NoError]
        ELSE ParseLoop(s, matches, 1,
                 [segments |-> <<>>, paramIndices |-> <<>>, paramMap |-> <<>>,
                  paramOrder |-> <<>>, lastEnd |-> 0])

\* mutant of CopySegments: result is the receiver's own slice
AliasSegments(segments) == [result |-> segments, shared |-> TRUE]

\* result := make([]string, len(ss.Segments)); copy(result, ss.Segments):
\* a new slice with the same elements, sharing no memory with the receiver
CopySegments(segments) == [result |-> segments, shared |-> FALSE]

\* mutant of ReconstructLoop: on a missing value the slots substituted so far
\* are joined and returned with the error
RECURSIVE ReconstructLoopPartial(_, _, _, _)
ReconstructLoopPartial(ss, values, k, result) ==
    IF k > Len(ss.ParamIndices)
    THEN [out |-> Join(result), err |-> NoError, result |-> result]
    ELSE LET idx == ss.ParamIndices[k]
             paramName == result[idx + 1]
         IN  IF paramName \in DOMAIN values
             THEN ReconstructLoopPartial(ss, values, k + 1,
                      [result EXCEPT ![idx + 1] = values[paramName]])
             ELSE [out |-> Join(result), err |-> MissingValue(paramName), result |-> result]

\* the loop of Reconstruct over ParamIndices, from slot number k on, and the
\* return; result is the working slice, also as it is left at the return
RECURSIVE ReconstructLoop(_, _, _, _)
ReconstructLoop(ss, values, k, result) ==
    IF k > Len(ss.ParamIndices)
    THEN [out |-> Join(result), err |-> NoError, result |-> result]
    ELSE LET idx == ss.ParamIndices[k]
             paramName == result[idx + 1]
         IN  IF paramName \in DOMAIN values
             THEN ReconstructLoop(ss, values, k + 1,
                      [result EXCEPT ![idx + 1] = values[paramName]])
             ELSE [out |-> <<>>, err |-> MissingValue(paramName), result |-> result]

\* mutant of Reconstruct: only the first parameter index is substituted
ReconstructFirstSlot(ss, values) ==
    LET r == ReconstructLoop([ss EXCEPT !.ParamIndices = IF ss.ParamIndices = <<>> THEN <<>>
                                                         ELSE <<ss.ParamIndices[1]>>],
                             values, 1, ss.Segments)
    IN  [out |-> r.out, err |-> r.err]

\* mutant of Reconstruct: a missing value falls back to the first default
ReconstructWithDefaults(ss, values) ==
    LET defaulted == { i \in 1..Len(ss.Params) :
                         /\ ss.Params[i].Name \notin DOMAIN values
                         /\ Len(ss.Params[i].DefaultValues) > 0 }
        filled == [n \in DOMAIN values \cup { ss.Params[i].Name : i \in defaulted } |->
                     IF n \in DOMAIN values THEN values[n]
                     ELSE LET i == CHOOSE i \in defaulted : ss.Params[i].Name = n
                          IN  ss.Params[i].DefaultValues[1]]
        r == ReconstructLoop(ss, filled, 1, ss.Segments)
    IN  [out |-> r.out, err |-> r.err]

\* mutant of Reconstruct: every segment that is a key of the mapping is
\* replaced, slot or not
ReconstructByName(ss, values) ==
    LET r == ReconstructLoop(ss, values, 1, ss.Segments)
    IN  IF r.err # NoError THEN [out |-> r.out, err |-> r.err]
        ELSE [out |-> Join([i \in 1..Len(ss.Segments) |->
                               IF ss.Segments[i] \in DOMAIN values
                               THEN values[ss.Segments[i]] ELSE ss.Segments[i]]),
              err |-> NoError]

\* the string and the error returned by ss.Reconstruct(values)
Reconstruct(ss, values) ==
    LET r == ReconstructLoop(ss, values, 1, CopySegments(ss.Segments).result)
    IN  [out |-> r.out, err |-> r.err]

\* the receiver *ss as ss.Reconstruct(values) leaves it: the writes to result
\* reach ss.Segments only if the two share memory
ReconstructReceiver(ss, values) ==
    LET c == CopySegments(ss.Segments)
        r == ReconstructLoop(ss, values, 1, c.result)
    IN  IF c.shared THEN [ss EXCEPT !.Segments = r.result] ELSE ss

(***************************************************************************)
(* Inputs.  A raw spell is either any string over Alphabet of at most      *)
(* MaxLen characters, or a concatenation of at most MaxPieces pieces, a    *)
(* piece being literal text or a marker written the way the tests write    *)
(* them: <name>, <name=default>, <name=default;default>.                   *)
(***************************************************************************)
RECURSIVE StringsUpTo(_)
StringsUpTo(n) ==
    IF n = 0 THEN {<<>>}
    ELSE LET shorter == StringsUpTo(n - 1)
         IN  shorter \cup { Append(s, c) : s \in { t \in shorter : Len(t) = n - 1 }, c \in Alphabet }

\* the name written with and without defaults, and a second name
PieceNames == {<<"a", "b">>, <<"b", "a">>}

DefaultedNames == {<<"a", "b">>}

PieceDefaults == {<<" ", "X">>}

LiteralPieces == {<<" ">>}

\* d1;d2;...;dn
RECURSIVE JoinDefaults(_)
JoinDefaults(ds) ==
    IF Len(ds) = 1 THEN ds[1] ELSE ds[1] \o <<";">> \o JoinDefaults(Tail(ds))

MarkerPieces ==
    { <<"<">> \o n \o <<">">> : n \in PieceNames }
    \cup { <<"<">> \o n \o <<"=">> \o JoinDefaults(ds) \o <<">">> :
             n \in DefaultedNames,
             ds \in UNION { [1..k -> PieceDefaults] : k \in 1..MaxDefaults } }

\* a piece: a marker, a marker after a literal character, or a literal character
Pieces ==
    MarkerPieces \cup { l \o m : l \in LiteralPieces, m \in MarkerPieces } \cup LiteralPieces

\* the concatenations of at most n pieces of P
ComposedOf(P, n) == { Join(ps) : ps \in UNION { [1..k -> P] : k \in 0..n } }

ComposedSpells == ComposedOf(Pieces, MaxPieces)

\* values a caller may supply for a parameter
Values == {<<"X">>, <<"a", "b">>}

\* a key that names no parameter of the explored spells
ExtraKey == <<"k">>

ParamNames(ss) == { ss.Params[i].Name : i \in 1..Len(ss.Params) }

\* the value mappings a caller may hand to Reconstruct
Mappings(ss) ==
    LET named == UNION { [K -> Values] : K \in SUBSET ParamNames(ss) }
    IN  named \cup { (ExtraKey :> <<"X">>) @@ m : m \in named }

(***************************************************************************)
(* The engine driven by a caller: one ParseSpell of the raw spell, then    *)
(* any number of Reconstruct calls on its result.                          *)
(***************************************************************************)
NoOutput == [out |-> <<>>, err |-> NoError]

NotParsed == [ss |-> NilSegments, err |-> NoError]

\* standard input: the lines typed, how many were read, how the input ends
\* ("EOF" or "error") and whether a read has hit that error
NoStdin == [lines |-> <<>>, pos |-> 0, end |-> "EOF", failed |-> FALSE]

\* no spell was added yet
NoAdd == [n |-> 0, entry |-> [Spell |-> <<>>, Name |-> <<>>, Desc |-> <<>>],
          filename |-> <<>>, err |-> "nil"]

\* no cast is in progress
CastIdle == stdin = NoStdin /\ promptAt = 0 /\ executed = <<>> /\ castErr = NoError

\* no concurrent callers
ConcIdle == procs = <<>>

\* the spell directory is not used
FilesIdle == store = <<>> /\ added = NoAdd

\* the terminal: its mode, and how often setRawMode and restoreTerminal ran
CookedTerm == [mode |-> "cooked", sets |-> 0, restores |-> 0]

\* the signal channel c: not made; notify says whether signal.Notify has
\* registered it, buf counts the signals in its buffer of one
NoChan == [made |-> FALSE, notify |-> FALSE, buf |-> 0, closed |-> FALSE]

NoResult == [value |-> "", err |-> "nil"]

\* no prompt was started
PromptIdle ==
    /\ options = <<>> /\ currentIndex = 0 /\ keys = <<>> /\ selected = NoResult
    /\ term = CookedTerm /\ sigc = NoChan /\ handler = "none"
    /\ proc = "running" /\ signals = 0

Init ==
    /\ (spell \in StringsUpTo(MaxLen) \/ spell \in ComposedSpells)
    /\ pc = "start"
    /\ parsed = NotParsed
    /\ paramValues = <<>>
    /\ output = NoOutput
    /\ CastIdle /\ ConcIdle /\ FilesIdle /\ PromptIdle

CallParseSpell ==
    /\ pc = "start"
    /\ parsed' = ParseSpell(spell)
    /\ pc' = "parsed"
    /\ UNCHANGED <<spell, paramValues, output, castVars, concVars, fileVars, promptVars>>

CallReconstruct ==
    /\ pc \in {"parsed", "reconstructed"}
    /\ parsed.err = NoError
    /\ \E m \in Mappings(parsed.ss) :
         /\ paramValues' = m
         /\ output' = Reconstruct(parsed.ss, m)
         /\ parsed' = [parsed EXCEPT !.ss = ReconstructReceiver(parsed.ss, m)]
    /\ pc' = "reconstructed"
    /\ UNCHANGED <<spell, castVars, concVars, fileVars, promptVars>>

Next == CallParseSpell \/ CallReconstruct

Spec == Init /\ [][Next]_vars

TypeOK ==
    /\ pc \in {"start", "parsed", "reconstructed"}
    /\ parsed.err.kind \in {"nil", "DuplicateDefault"}
    /\ output.err.kind \in {"nil", "MissingValue"}

(***************************************************************************)
(* The cast flow, main.go castCommand from the "Spell: " line on: parse    *)
(* the spell, prompt once for each parameter, reconstruct, run the result  *)
(* with bash -c.  The prompt loop is promptSpellParameters of prompt.go,   *)
(* which castCommand carries inline.                                       *)
(***************************************************************************)
\* lines a user may type
Responses == {<<>>, <<" ">>, <<" ", "Y", " ">>}

\* standard input before the first read
Stdins ==
    { [lines |-> ls, pos |-> 0, end |-> e, failed |-> FALSE] :
        ls \in UNION { [1..n -> Responses] : n \in 0..MaxResponses },
        e \in {"EOF", "error"} }

CastSpells == ComposedOf(Pieces, MaxCastPieces)

ReadError == [kind |-> "ReadError", name |-> <<>>]

\* reader.Scan() with reader.Text(): the next line if there is one, else
\* false, and the scanner remembers a read error
Scan(in) ==
    IF in.pos < Len(in.lines)
    THEN [ok |-> TRUE, text |-> in.lines[in.pos + 1], in |-> [in EXCEPT !.pos = in.pos + 1]]
    ELSE [ok |-> FALSE, text |-> <<>>, in |-> [in EXCEPT !.failed = (in.end = "error")]]

\* reader.Err()
ScanErr(in) == IF in.failed THEN ReadError ELSE NoError

\* paramValues[name] = value
Put(values, name, value) ==
    [n \in DOMAIN values \cup {name} |-> IF n = name THEN value ELSE values[n]]

\* one round of the prompt loop, after the prompt is printed: sc is what
\* reader.Scan() gave
PromptParam(param, values, sc) ==
    IF ~sc.ok THEN values
    ELSE LET input == TrimSpace(sc.text)
         IN  IF input # <<>> THEN Put(values, param.Name, input)
             ELSE IF Len(param.DefaultValues) > 0
                  THEN Put(values, param.Name, param.DefaultValues[1])
                  ELSE values

\* mutant of CastAborts: the cast goes on whatever the error
CastNeverAborts(err) == FALSE

\* if err != nil { return err }
CastAborts(err) == err # NoError

InitCast ==
    /\ spell \in CastSpells
    /\ pc = "cast"
    /\ parsed = NotParsed
    /\ paramValues = <<>>
    /\ output = NoOutput
    /\ stdin \in Stdins
    /\ promptAt = 0
    /\ executed = <<>>
    /\ castErr = NoError
    /\ ConcIdle /\ FilesIdle /\ PromptIdle

\* spellSegments, err := ParseSpell(spell), and the branch on its parameters
CastParse ==
    /\ pc = "cast"
    /\ LET r == ParseSpell(spell)
       IN  /\ parsed' = r
           /\ IF CastAborts(r.err)
              THEN pc' = "returned" /\ castErr' = r.err /\ promptAt' = promptAt
              ELSE IF Len(r.ss.Params) > 0
                   THEN pc' = "prompting" /\ castErr' = castErr /\ promptAt' = 1
                   ELSE pc' = "casting" /\ castErr' = castErr /\ promptAt' = promptAt
    /\ UNCHANGED <<spell, paramValues, output, stdin, executed, concVars, fileVars, promptVars>>

\* one round of for _, param := range spellSegments.Params
CastPrompt ==
    /\ pc = "prompting"
    /\ promptAt <= Len(parsed.ss.Params)
    /\ LET sc == Scan(stdin)
       IN  /\ paramValues' = PromptParam(parsed.ss.Params[promptAt], paramValues, sc)
           /\ stdin' = sc.in
    /\ promptAt' = promptAt + 1
    /\ UNCHANGED <<spell, pc, parsed, output, executed, castErr, concVars, fileVars, promptVars>>

\* after the loop: reader.Err(), then spell, err = Reconstruct(paramValues)
CastReconstruct ==
    /\ pc = "prompting"
    /\ promptAt > Len(parsed.ss.Params)
    /\ IF CastAborts(ScanErr(stdin))
       THEN pc' = "returned" /\ castErr' = ScanErr(stdin) /\ UNCHANGED <<output, parsed>>
       ELSE LET r == Reconstruct(parsed.ss, paramValues)
            IN  /\ output' = r
                /\ parsed' = [parsed EXCEPT !.ss = ReconstructReceiver(parsed.ss, paramValues)]
                /\ IF CastAborts(r.err)
                   THEN pc' = "returned" /\ castErr' = r.err
                   ELSE pc' = "casting" /\ castErr' = castErr
    /\ UNCHANGED <<spell, paramValues, stdin, promptAt, executed, concVars, fileVars, promptVars>>

\* exec.Command("bash", "-c", spell).Run(), spell being the reconstruction
\* if there was one; then break and return nil
CastExec ==
    /\ pc = "casting"
    /\ executed' = Append(executed, IF promptAt > 0 THEN output.out ELSE spell)
    /\ pc' = "returned"
    /\ UNCHANGED <<spell, parsed, paramValues, output, stdin, promptAt, castErr,
                   concVars, fileVars, promptVars>>

NextCast == CastParse \/ CastPrompt \/ CastReconstruct \/ CastExec

SpecCast == InitCast /\ [][NextCast]_vars

(***************************************************************************)
(* Concurrent callers of the engine.  Two goroutines call ParseSpell, each *)
(* on a string of its own, and two call Reconstruct on one SpellSegments   *)
(* parsed before, each with a mapping of its own.  A step is one round of  *)
(* a loop of the call; the locals of a call are the fields of its record   *)
(* in procs, and parsed.ss is the SpellSegments in shared memory.          *)
(***************************************************************************)
Parsers == {"p1", "p2"}

Reconstructors == {"r1", "r2"}

ConcPieces == {<<"<", "a", "b", ">">>, <<"<", "b", "a", "=", " ", "X", ";", " ", "X", ">">>, <<" ">>}

ConcSpells == ComposedOf(ConcPieces, MaxConcPieces)

\* the locals of ParseSpell before its loop
ParseLocals ==
    [segments |-> <<>>, paramIndices |-> <<>>, paramMap |-> <<>>,
     paramOrder |-> <<>>, lastEnd |-> 0]

\* one round of the loop of ParseSpell, for one match
ParseIteration(s, match, st) ==
    LET start == match[1]
        end == match[2]
        paramStart == match[3]
        paramEnd == match[4]
        st1 == [st EXCEPT !.segments = BeforeText(s, st.segments, st.lastEnd, start)]
    IN  IF paramStart >= 0 /\ paramEnd >= 0
        THEN LET nd == extractParamNameAndDefaults(s, paramStart, paramEnd)
             IN  IF RejectRepeat(st1.paramMap, nd.name, nd.defaultValues)
                 THEN [st |-> st1, err |-> DuplicateDefault(nd.name)]
                 ELSE [st |-> [AddSlot(RecordParam(st1, nd.name, nd.defaultValues), nd.name)
                                  EXCEPT !.lastEnd = end],
                       err |-> NoError]
        ELSE [st |-> [st1 EXCEPT !.lastEnd = end], err |-> NoError]

\* a call that has not started: s is the argument of ParseSpell, values the
\* argument of Reconstruct
Call(s, values) ==
    [pc |-> "call", s |-> s, values |-> values, matches |-> <<>>, k |-> 0,
     st |-> ParseLocals, result |-> <<>>, shared |-> FALSE, ret |-> NoOutput]

InitConc ==
    /\ spell \in ConcSpells
    /\ ParseSpell(spell).err = NoError
    /\ parsed = ParseSpell(spell)
    /\ pc = "concurrent"
    /\ paramValues = <<>>
    /\ output = NoOutput
    /\ \E K \in SUBSET ParamNames(parsed.ss) :
         procs = [w \in Parsers \cup Reconstructors |->
                    CASE w = "p1" -> Call(spell, <<>>)
                      [] w = "p2" -> Call(Join(<<spell, spell>>), <<>>)
                      [] w = "r1" -> Call(<<>>, [n \in K |-> <<"X">>])
                      [] w = "r2" -> Call(<<>>, [n \in ParamNames(parsed.ss) |-> <<"a", "b">>])]
    /\ CastIdle /\ FilesIdle /\ PromptIdle

\* the call of w is over and returns ret
Return(w, ret) == procs' = [procs EXCEPT ![w].pc = "done", ![w].ret = ret]

\* matches := paramRegex.FindAllStringSubmatchIndex(s, -1), and the return
\* for a string without a match
ParseStart(w) ==
    /\ w \in Parsers
    /\ procs[w].pc = "call"
    /\ LET matches == FindAllStringSubmatchIndex(procs[w].s)
       IN  IF Len(matches) = 0
           THEN Return(w, [ss |-> SpellSegments(<<procs[w].s>>, <<>>, <<>>), err |-> NoError])
           ELSE procs' = [procs EXCEPT ![w].pc = "loop", ![w].matches = matches, ![w].k = 1]
    /\ UNCHANGED <<engineVars, castVars, fileVars, promptVars>>

\* one round of for _, match := range matches
ParseStep(w) ==
    /\ w \in Parsers
    /\ procs[w].pc = "loop"
    /\ procs[w].k <= Len(procs[w].matches)
    /\ LET r == ParseIteration(procs[w].s, procs[w].matches[procs[w].k], procs[w].st)
       IN  IF r.err # NoError
           THEN Return(w, [ss |-> NilSegments, err |-> r.err])
           ELSE procs' = [procs EXCEPT ![w].st = r.st, ![w].k = procs[w].k + 1]
    /\ UNCHANGED <<engineVars, castVars, fileVars, promptVars>>

\* after the loop: the trailing text, the parameters in order, the return
ParseFinish(w) ==
    /\ w \in Parsers
    /\ procs[w].pc = "loop"
    /\ procs[w].k > Len(procs[w].matches)
    /\ Return(w, ParseLoop(procs[w].s, procs[w].matches, procs[w].k, procs[w].st))
    /\ UNCHANGED <<engineVars, castVars, fileVars, promptVars>>

\* the slice that result names in the call of w
ResultOf(w) == IF procs[w].shared THEN parsed.ss.Segments ELSE procs[w].result

\* result := make(...); copy(result, ss.Segments)
ReconstructStart(w) ==
    /\ w \in Reconstructors
    /\ procs[w].pc = "call"
    /\ LET c == CopySegments(parsed.ss.Segments)
       IN  procs' = [procs EXCEPT ![w].pc = "loop", ![w].k = 1,
                                  ![w].result = c.result, ![w].shared = c.shared]
    /\ UNCHANGED <<engineVars, castVars, fileVars, promptVars>>

\* one round of for _, idx := range ss.ParamIndices
ReconstructStep(w) ==
    /\ w \in Reconstructors
    /\ procs[w].pc = "loop"
    /\ procs[w].k <= Len(parsed.ss.ParamIndices)
    /\ LET idx == parsed.ss.ParamIndices[procs[w].k]
           paramName == ResultOf(w)[idx + 1]
           values == procs[w].values
       IN  IF paramName \in DOMAIN values
           THEN IF procs[w].shared
                THEN /\ parsed' = [parsed EXCEPT !.ss.Segments[idx + 1] = values[paramName]]
                     /\ procs' = [procs EXCEPT ![w].k = procs[w].k + 1]
                ELSE /\ procs' = [procs EXCEPT ![w].k = procs[w].k + 1,
                                               ![w].result[idx + 1] = values[paramName]]
                     /\ parsed' = parsed
           ELSE /\ Return(w, [out |-> <<>>, err |-> MissingValue(paramName)])
                /\ parsed' = parsed
    /\ UNCHANGED <<spell, pc, paramValues, output, castVars, fileVars, promptVars>>

\* return strings.Join(result, ""), nil
ReconstructFinish(w) ==
    /\ w \in Reconstructors
    /\ procs[w].pc = "loop"
    /\ procs[w].k > Len(parsed.ss.ParamIndices)
    /\ Return(w, [out |-> Join(ResultOf(w)), err |-> NoError])
    /\ UNCHANGED <<engineVars, castVars, fileVars, promptVars>>

NextConc ==
    \E w \in Parsers \cup Reconstructors :
        \/ ParseStart(w)
        \/ ParseStep(w)
        \/ ParseFinish(w)
        \/ ReconstructStart(w)
        \/ ReconstructStep(w)
        \/ ReconstructFinish(w)

SpecConc == InitConc /\ [][NextConc]_vars

(***************************************************************************)
(* The spell path.  addCommand writes the entry that prompt built to the   *)
(* file named after the sanitized name; store is the directory, a function *)
(* from the names of its files to their content.                           *)
(***************************************************************************)
UpperCase == <<"A", "B", "C", "D", "E", "F", "G", "H", "I", "J", "K", "L", "M",
               "N", "O", "P", "Q", "R", "S", "T", "U", "V", "W", "X", "Y", "Z">>

LowerCase == <<"a", "b", "c", "d", "e", "f", "g", "h", "i", "j", "k", "l", "m",
               "n", "o", "p", "q", "r", "s", "t", "u", "v", "w", "x", "y", "z">>

Digits == {"0", "1", "2", "3", "4", "5", "6", "7", "8", "9"}

\* strings.ReplaceAll(name, " ", "_")
ReplaceSpaces(name) == [i \in 1..Len(name) |-> IF name[i] = " " THEN "_" ELSE name[i]]

ToLowerChar(c) ==
    IF \E i \in 1..Len(UpperCase) : UpperCase[i] = c
    THEN LowerCase[CHOOSE i \in 1..Len(UpperCase) : UpperCase[i] = c]
    ELSE c

\* strings.ToLower
ToLower(str) == [i \in 1..Len(str) |-> ToLowerChar(str[i])]

IsAlnum(c) == (\E i \in 1..Len(LowerCase) : LowerCase[i] = c) \/ c \in Digits

\* the characters the loop of SanitizeFilename writes to the result
IsFilenameChar(c) == IsAlnum(c) \/ c = "_" \/ c = "-"

SanitizeFilename(name) == SelectSeq(ToLower(ReplaceSpaces(name)), IsFilenameChar)

\* the input of the last case of TestSanitizeFilename and the result it wants
TestName == <<" ", " ", "M", "y", " ", " ", "F", "i", "l", "e", " ", "@", " ",
              "N", "a", "m", "e", "!", " ", " ">>

TestWant == <<"m", "y", "_", "_", "f", "i", "l", "e", "_", "n", "a", "m", "e">>

NameAlphabet == {" ", "A", "a", "_"}

\* names given on the command line or typed
Names == UNION { [1..n -> NameAlphabet] : n \in 0..MaxNameLen } \cup {TestName}

Entries == [Spell : {<<"x">>, <<"y">>}, Name : Names, Desc : {<<>>}]

\* fmt.Sprintf("Spell: %s\nName: %s\nDescription: %s", ...): the content
\* of the file holds the three fields
Content(entry) == [Spell |-> entry.Spell, Name |-> entry.Name, Desc |-> entry.Desc]

\* mutant of Exists: the file is never found
ExistsNever(dir, filename) == FALSE

\* _, err := os.Stat(filepath); err == nil
Exists(dir, filename) == filename \in DOMAIN dir

\* os.WriteFile(filepath, content, 0644) when it succeeds: the file is
\* created, or truncated, and holds content
WriteFile(dir, filename, content) ==
    [f \in DOMAIN dir \cup {filename} |-> IF f = filename THEN content ELSE dir[f]]

InitFiles ==
    /\ spell = <<>>
    /\ pc = "files"
    /\ parsed = NotParsed
    /\ paramValues = <<>>
    /\ output = NoOutput
    /\ store = <<>>
    /\ added = NoAdd
    /\ CastIdle /\ ConcIdle /\ PromptIdle

\* write(spellPath, entry); the write of the file may fail, and then no
\* file is there
Write ==
    /\ added.n < MaxAdds
    /\ \E entry \in Entries, written \in BOOLEAN :
         LET filename == SanitizeFilename(entry.Name) \o <<".txt">>
         IN  IF Exists(store, filename)
             THEN /\ written
                  /\ added' = [n |-> added.n + 1, entry |-> entry,
                               filename |-> filename, err |-> "already exists"]
                  /\ store' = store
             ELSE IF written
                  THEN /\ store' = WriteFile(store, filename, Content(entry))
                       /\ added' = [n |-> added.n + 1, entry |-> entry,
                                    filename |-> filename, err |-> "nil"]
                  ELSE /\ store' = store
                       /\ added' = [n |-> added.n + 1, entry |-> entry,
                                    filename |-> filename, err |-> "write failed"]
    /\ UNCHANGED <<engineVars, castVars, concVars, promptVars>>

NextFiles == Write

SpecFiles == InitFiles /\ [][NextFiles]_vars

(***************************************************************************)
(* Reconstruct with values that look like parts of a spell: the spells are *)
(* made of two markers and of literal text equal to a parameter name, the  *)
(* values are parameter names, marker text and plain text, and the mapping *)
(* may have entries for names that are no parameter of the spell.          *)
(***************************************************************************)
SubstPieces == {<<"<", "a", "b", ">">>, <<"<", "b", "a", ">">>, <<"a", "b">>}

SubstSpells == ComposedOf(SubstPieces, MaxSubstPieces)

SubstKeys == {<<"a", "b">>, <<"b", "a">>, ExtraKey}

SubstValues == {<<"b", "a">>, <<"<", "a", "b", ">">>, <<"X">>}

SubstMappings == UNION { [K -> SubstValues] : K \in SUBSET SubstKeys }

InitSubst ==
    /\ spell \in SubstSpells
    /\ pc = "start"
    /\ parsed = NotParsed
    /\ paramValues = <<>>
    /\ output = NoOutput
    /\ CastIdle /\ ConcIdle /\ FilesIdle /\ PromptIdle

CallSubstitute ==
    /\ pc \in {"parsed", "reconstructed"}
    /\ parsed.err = NoError
    /\ \E m \in SubstMappings :
         /\ paramValues' = m
         /\ output' = Reconstruct(parsed.ss, m)
         /\ parsed' = [parsed EXCEPT !.ss = ReconstructReceiver(parsed.ss, m)]
    /\ pc' = "reconstructed"
    /\ UNCHANGED <<spell, castVars, concVars, fileVars, promptVars>>

NextSubst == CallParseSpell \/ CallSubstitute

SpecSubst == InitSubst /\ [][NextSubst]_vars

(***************************************************************************)
(* The tab-cycling prompt, prompt.go promptWithTabCycling, called by       *)
(* mainCommand.  pc is the position of the main goroutine, handler the     *)
(* position of the goroutine that waits for a signal or for done; SIGINT   *)
(* and SIGTERM arrive from outside at any time.  done is unbuffered: the   *)
(* deferred send happens together with the handler's receive.              *)
(***************************************************************************)
Tab == 9

LF == 10

CR == 13

Esc == 27

\* the keys that end the prompt, Tab, and a key that is ignored
Keys == {Tab, CR, LF, Esc} \cup {120}

\* c := make(chan os.Signal, 1)
SignalBuffer == 1

\* options := []string{"cast", "view", "edit", "echo"}
AllOptions == <<"cast", "view", "edit", "echo">>

OptionLists == { SubSeq(AllOptions, 1, n) : n \in 0..MaxOptions }

\* mutant of NextIndex: the highlight stops at the last option
NextIndexStops(i, n) == IF i + 1 < n THEN i + 1 ELSE i

\* currentIndex = (currentIndex + 1) % len(options)
NextIndex(i, n) == (i + 1) % n

\* restoreTerminal()
RestoreTerminal(t) == [t EXCEPT !.mode = "cooked", !.restores = t.restores + 1]

InitPrompt ==
    /\ spell = <<>>
    /\ pc = "main"
    /\ parsed = NotParsed
    /\ paramValues = <<>>
    /\ output = NoOutput
    /\ CastIdle /\ ConcIdle /\ FilesIdle
    /\ options \in OptionLists
    /\ currentIndex = 0 /\ keys = <<>> /\ selected = NoResult
    /\ term = CookedTerm /\ sigc = NoChan /\ handler = "none"
    /\ proc = "running" /\ signals = 0

\* the call: the check of the options, make(done), make(c), signal.Notify,
\* the go statement, and the registration of the deferred function
PromptStart ==
    /\ proc = "running"
    /\ pc = "main"
    /\ IF Len(options) = 0
       THEN /\ selected' = [value |-> "", err |-> "no options provided"]
            /\ pc' = "returned"
            /\ UNCHANGED <<sigc, handler>>
       ELSE /\ sigc' = [made |-> TRUE, notify |-> TRUE, buf |-> 0, closed |-> FALSE]
            /\ handler' = "select"
            /\ pc' = "setraw"
            /\ UNCHANGED selected
    /\ UNCHANGED <<spell, parsed, paramValues, output, castVars, concVars, fileVars,
                   options, currentIndex, keys, term, proc, signals>>

\* if err := setRawMode(); err != nil { return "", err }; currentIndex := 0
SetRawMode ==
    /\ proc = "running"
    /\ pc = "setraw"
    /\ \E ok \in BOOLEAN :
         /\ term' = [term EXCEPT !.sets = term.sets + 1,
                                 !.mode = IF ok THEN "raw" ELSE term.mode]
         /\ IF ok
            THEN pc' = "loop" /\ currentIndex' = 0 /\ UNCHANGED selected
            ELSE /\ pc' = "send"
                 /\ selected' = [value |-> "", err |-> "stty failed"]
                 /\ UNCHANGED currentIndex
    /\ UNCHANGED <<spell, parsed, paramValues, output, castVars, concVars, fileVars,
                   options, keys, sigc, handler, proc, signals>>

\* one round of the loop: os.Stdin.Read(buf) and the switch on buf[0]
ReadKey ==
    /\ proc = "running"
    /\ pc = "loop"
    /\ \/ /\ selected' = [value |-> "", err |-> "read error"]
          /\ pc' = "send"
          /\ UNCHANGED <<keys, currentIndex>>
       \/ \E key \in Keys :
            /\ key \in {CR, LF, Esc} \/ Len(keys) < MaxKeys
            /\ keys' = Append(keys, key)
            /\ CASE key = Tab ->
                      /\ currentIndex' = NextIndex(currentIndex, Len(options))
                      /\ UNCHANGED <<pc, selected>>
                 [] key \in {CR, LF} ->
                      /\ selected' = [value |-> options[currentIndex + 1], err |-> "nil"]
                      /\ pc' = "send"
                      /\ UNCHANGED currentIndex
                 [] key = Esc ->
                      /\ selected' = [value |-> "", err |-> "nil"]
                      /\ pc' = "send"
                      /\ UNCHANGED currentIndex
                 [] OTHER -> UNCHANGED <<pc, selected, currentIndex>>
    /\ UNCHANGED <<spell, parsed, paramValues, output, castVars, concVars, fileVars,
                   options, term, sigc, handler, proc, signals>>

\* the deferred function: done <- struct{}{}, received by case <-done of
\* the handler, which returns
DeferSend ==
    /\ proc = "running"
    /\ pc = "send"
    /\ handler = "select"
    /\ handler' = "returned"
    /\ pc' = "close"
    /\ UNCHANGED <<spell, parsed, paramValues, output, castVars, concVars, fileVars,
                   options, currentIndex, keys, selected, term, sigc, proc, signals>>

\* the deferred function: close(c)
DeferClose ==
    /\ proc = "running"
    /\ pc = "close"
    /\ sigc' = [sigc EXCEPT !.closed = TRUE]
    /\ pc' = "restore"
    /\ UNCHANGED <<spell, parsed, paramValues, output, castVars, concVars, fileVars,
                   options, currentIndex, keys, selected, term, handler, proc, signals>>

\* the deferred function: restoreTerminal(), and the return
DeferRestore ==
    /\ proc = "running"
    /\ pc = "restore"
    /\ term' = RestoreTerminal(term)
    /\ pc' = "returned"
    /\ UNCHANGED <<spell, parsed, paramValues, output, castVars, concVars, fileVars,
                   options, currentIndex, keys, selected, sigc, handler, proc, signals>>

\* mainCommand after the prompt: return on an error or on no action, else
\* run the chosen action
Dispatch ==
    /\ proc = "running"
    /\ pc = "returned"
    /\ IF selected.err # "nil" \/ selected.value = ""
       THEN proc' = "exited" /\ pc' = pc
       ELSE pc' = "action" /\ proc' = proc
    /\ UNCHANGED <<spell, parsed, paramValues, output, castVars, concVars, fileVars,
                   options, currentIndex, keys, selected, term, sigc, handler, signals>>

\* the chosen action is over and the process ends
ActionDone ==
    /\ proc = "running"
    /\ pc = "action"
    /\ proc' = "exited"
    /\ UNCHANGED <<engineVars, castVars, concVars, fileVars,
                   options, currentIndex, keys, selected, term, sigc, handler, signals>>

\* the handler: case <-c
HandlerReceive ==
    /\ proc = "running"
    /\ handler = "select"
    /\ sigc.buf > 0 \/ sigc.closed
    /\ sigc' = [sigc EXCEPT !.buf = IF sigc.buf > 0 THEN sigc.buf - 1 ELSE 0]
    /\ handler' = "restoring"
    /\ UNCHANGED <<engineVars, castVars, concVars, fileVars,
                   options, currentIndex, keys, selected, term, proc, signals>>

\* the handler: restoreTerminal()
HandlerRestore ==
    /\ proc = "running"
    /\ handler = "restoring"
    /\ term' = RestoreTerminal(term)
    /\ handler' = "exiting"
    /\ UNCHANGED <<engineVars, castVars, concVars, fileVars,
                   options, currentIndex, keys, selected, sigc, proc, signals>>

\* the handler: os.Exit(130)
HandlerExit ==
    /\ proc = "running"
    /\ handler = "exiting"
    /\ proc' = "exited130"
    /\ UNCHANGED <<engineVars, castVars, concVars, fileVars,
                   options, currentIndex, keys, selected, term, sigc, handler, signals>>

\* SIGINT or SIGTERM arrives: the runtime sends it to every channel that
\* signal.Notify registered, without blocking; c stays registered, there is
\* no signal.Stop, and a send on a closed channel panics
Signal ==
    /\ proc = "running"
    /\ sigc.notify
    /\ signals < MaxSignals
    /\ signals' = signals + 1
    /\ IF sigc.closed
       THEN proc' = "panicked" /\ sigc' = sigc
       ELSE /\ sigc' = [sigc EXCEPT !.buf = IF sigc.buf < SignalBuffer THEN sigc.buf + 1
                                            ELSE sigc.buf]
            /\ proc' = proc
    /\ UNCHANGED <<engineVars, castVars, concVars, fileVars,
                   options, currentIndex, keys, selected, term, handler>>

NextPrompt ==
    \/ PromptStart
    \/ SetRawMode
    \/ ReadKey
    \/ DeferSend
    \/ DeferClose
    \/ DeferRestore
    \/ Dispatch
    \/ ActionDone
    \/ HandlerReceive
    \/ HandlerRestore
    \/ HandlerExit
    \/ Signal

SpecPrompt == InitPrompt /\ [][NextPrompt]_vars

(***************************************************************************)
(* Vocabulary of the properties.  The marker occurrences of the raw spell  *)
(* are the matches of paramRegex, each with the name and the defaults      *)
(* extracted from its body.                                                *)
(***************************************************************************)
Matches == FindAllStringSubmatchIndex(spell)

Occurrences ==
    LET m == Matches
    IN  [k \in 1..Len(m) |-> extractParamNameAndDefaults(spell, m[k][3], m[k][4])]

OccurrenceNames == LET occ == Occurrences IN { occ[k].name : k \in 1..Len(occ) }

\* occurrences of a name seen earlier that declare defaults
RepeatsWithDefaults ==
    LET occ == Occurrences
    IN  { k \in 1..Len(occ) :
            /\ Len(occ[k].defaultValues) >= 1
            /\ \E j \in 1..(k - 1) : occ[j].name = occ[k].name }

ParseReturned == pc # "start"

ParseSucceeded == pc # "start" /\ parsed.err = NoError

HasAngle(str) == \E i \in 1..Len(str) : str[i] \in {"<", ">"}

Trimmed(str) == str = <<>> \/ (~IsSpace(str[1]) /\ ~IsSpace(str[Len(str)]))

Lookup(m, n) == IF n \in DOMAIN m THEN m[n] ELSE <<"?">>

\* the raw string s from offset pos on, with match number k and the later
\* matches replaced by repl[k], repl[k+1], ... and the rest left as it is
RECURSIVE ReplaceMatches(_, _, _, _, _)
ReplaceMatches(s, matches, repl, k, pos) ==
    IF k > Len(matches) THEN Slice(s, pos, Len(s))
    ELSE Slice(s, pos, matches[k][1]) \o repl[k]
         \o ReplaceMatches(s, matches, repl, k + 1, matches[k][2])

\* the markers of the grammar of the specification: '<' body '>' with a body
\* of one or more characters, none '<' or '>', not starting or ending with
\* white space; <<lo, hi>> is the half-open range of the marker in s
GrammarMarkers(s) ==
    { r \in (0..Len(s)) \X (0..Len(s)) :
        /\ r[1] + 3 <= r[2]
        /\ s[r[1] + 1] = "<"
        /\ s[r[2]] = ">"
        /\ ~HasAngle(Slice(s, r[1] + 1, r[2] - 1))
        /\ ~IsSpace(s[r[1] + 2])
        /\ ~IsSpace(s[r[2] - 1]) }

(***************************************************************************)
(* Properties.                                                             *)
(***************************************************************************)

\* C1: whenever a name that occurred earlier in the spell occurs again with
\* one or more defaults declared, ParseSpell fails with the
\* duplicate-default error naming that parameter.
C1_RepeatWithDefaultsRejected ==
    (ParseReturned /\ RepeatsWithDefaults # {})
        => parsed.err = DuplicateDefault(Occurrences[Min(RepeatsWithDefaults)].name)

\* C2: when the mapping has an entry for every parameter of the parse
\* result, Reconstruct returns the raw spell with every marker occurrence,
\* repeats included, replaced by the value mapped to its name and the text
\* outside markers unchanged.
C2_ReconstructReplacesEveryMarker ==
    (pc = "reconstructed" /\ ParamNames(parsed.ss) \subseteq DOMAIN paramValues)
        => LET m == Matches
               occ == Occurrences
           IN  output = [out |-> ReplaceMatches(spell, m,
                                     [k \in 1..Len(m) |-> Lookup(paramValues, occ[k].name)],
                                     1, 0),
                         err |-> NoError]

\* a complete mapping was substituted into a spell that repeats a name
\* and has text outside its markers
C2_Witness ==
    /\ pc = "reconstructed"
    /\ output.err = NoError
    /\ ParamNames(parsed.ss) \subseteq DOMAIN paramValues
    /\ Len(Matches) > Cardinality(OccurrenceNames)
    /\ Len(parsed.ss.Segments) > Len(Matches)
    /\ Cardinality(OccurrenceNames) >= 2
    /\ output.out # spell

\* C3: every marker of the grammar, a one-character body included, is
\* recognised by ParseSpell: it is a match, and a successful parse has a
\* parameter with its name.
C3_GrammarMarkerRecognised ==
    ParseReturned =>
        \A r \in GrammarMarkers(spell) :
            /\ \E k \in 1..Len(Matches) : Matches[k][1] = r[1] /\ Matches[k][2] = r[2]
            /\ ParseSucceeded =>
                 TrimSpace(SplitN2(Slice(spell, r[1] + 1, r[2] - 1), "=")[1])
                     \in ParamNames(parsed.ss)

\* C4: in a successful parse no parameter name, parameter segment or
\* default value contains '<' or '>'.
C4_NoAngleInsideMarker ==
    ParseSucceeded =>
        /\ \A i \in 1..Len(parsed.ss.Params) :
             /\ ~HasAngle(parsed.ss.Params[i].Name)
             /\ \A d \in 1..Len(parsed.ss.Params[i].DefaultValues) :
                  ~HasAngle(parsed.ss.Params[i].DefaultValues[d])
        /\ \A i \in 1..Len(parsed.ss.ParamIndices) :
             ~HasAngle(parsed.ss.Segments[parsed.ss.ParamIndices[i] + 1])

\* C5: in a successful parse every parameter name is non-empty and has no
\* leading or trailing white space.
C5_NameNonEmptyTrimmed ==
    ParseSucceeded =>
        \A i \in 1..Len(parsed.ss.Params) :
            parsed.ss.Params[i].Name # <<>> /\ Trimmed(parsed.ss.Params[i].Name)

\* C6: in a successful parse every default value has no leading or
\* trailing white space.
C6_DefaultsTrimmed ==
    ParseSucceeded =>
        \A i \in 1..Len(parsed.ss.Params) :
            \A d \in 1..Len(parsed.ss.Params[i].DefaultValues) :
                Trimmed(parsed.ss.Params[i].DefaultValues[d])

\* C7: in a successful parse Params holds each distinct name once, in the
\* order of the names' first occurrences, each with the defaults of its
\* first occurrence.
C7_ParamsUniqueFirstOccurrence ==
    ParseSucceeded =>
        LET params == parsed.ss.Params
            occ == Occurrences
            first == [i \in 1..Len(params) |->
                         { k \in 1..Len(occ) :
                             /\ occ[k].name = params[i].Name
                             /\ \A j \in 1..(k - 1) : occ[j].name # occ[k].name }]
        IN  /\ \A k \in 1..Len(occ) : \E i \in 1..Len(params) : params[i].Name = occ[k].name
            /\ \A i \in 1..Len(params) :
                 /\ Cardinality(first[i]) = 1
                 /\ \A k \in first[i] : params[i].DefaultValues = occ[k].defaultValues
            /\ \A i, j \in 1..Len(params) :
                 i < j => /\ params[i].Name # params[j].Name
                          /\ \A k \in first[i] : \A l \in first[j] : k < l

\* a parse succeeded on a spell with two names where a name is repeated
\* and the repeat writes other defaults than the first occurrence
C7_Witness ==
    /\ ParseSucceeded
    /\ Len(parsed.ss.Params) >= 2
    /\ \E j, k \in 1..Len(Occurrences) :
         /\ j < k
         /\ Occurrences[j].name = Occurrences[k].name
         /\ Occurrences[j].defaultValues # Occurrences[k].defaultValues

\* C8: in a successful parse ParamIndices has one entry per marker
\* occurrence and Params one entry per distinct name.
C8_SlotAndParamCounts ==
    ParseSucceeded =>
        /\ Len(parsed.ss.ParamIndices) = Len(Matches)
        /\ Len(parsed.ss.Params) = Cardinality(OccurrenceNames)
        /\ Len(parsed.ss.Params) <= Len(parsed.ss.ParamIndices)

\* a parse succeeded on a spell with more occurrences than names
C8_Witness ==
    /\ ParseSucceeded
    /\ Len(Matches) = 3
    /\ Cardinality(OccurrenceNames) = 2
    /\ Len(parsed.ss.ParamIndices) = 3

\* C9: in a successful parse the concatenation of Segments is the raw
\* spell with each marker replaced by its bare trimmed name and every
\* character outside the markers kept in order.
C9_SegmentsConcatenation ==
    ParseSucceeded =>
        LET m == Matches
            occ == Occurrences
        IN  Join(parsed.ss.Segments) =
                ReplaceMatches(spell, m, [k \in 1..Len(m) |-> occ[k].name], 1, 0)

\* a parse succeeded on a spell with text before, between and after two
\* markers, one of them with defaults
C9_Witness ==
    /\ ParseSucceeded
    /\ Len(Matches) = 2
    /\ Matches[1][1] > 0
    /\ Matches[2][1] > Matches[1][2]
    /\ Matches[2][2] < Len(spell)
    /\ Len(parsed.ss.Segments) = 5
    /\ \E k \in 1..2 : Occurrences[k].defaultValues # <<>>

\* C10: a spell without a marker parses to one segment equal to the
\* spell, no parameter and no parameter index, and Reconstruct of that
\* result returns the spell unchanged, without error, for any mapping.
C10_NoMarkerIdentity ==
    (ParseReturned /\ Matches = <<>>) =>
        /\ parsed = [ss |-> SpellSegments(<<spell>>, <<>>, <<>>), err |-> NoError]
        /\ pc = "reconstructed" => output = [out |-> spell, err |-> NoError]

\* a spell with an unterminated '<' and no marker was reconstructed with
\* a non-empty mapping
C10_Witness ==
    /\ pc = "reconstructed"
    /\ Matches = <<>>
    /\ DOMAIN paramValues # {}
    /\ \E i \in 1..Len(spell) : spell[i] = "<"
    /\ output.out = spell

\* the names at the parameter indices of ss, in slot order
SlotNames(ss) == [k \in 1..Len(ss.ParamIndices) |-> ss.Segments[ss.ParamIndices[k] + 1]]

\* C11: Reconstruct fails with the missing-value error whenever the name at
\* some parameter index has no entry in the mapping; the error names the
\* first such name in slot order, also when that parameter has defaults.
C11_MissingValueNamesFirstSlot ==
    pc = "reconstructed" =>
        LET names == SlotNames(parsed.ss)
            missing == { k \in 1..Len(names) : names[k] \notin DOMAIN paramValues }
        IN  IF missing = {} THEN output.err = NoError
            ELSE output.err = MissingValue(names[Min(missing)])

\* a parameter with defaults, not the first slot, is the first one missing
C11_Witness ==
    /\ pc = "reconstructed"
    /\ output.err.kind = "MissingValue"
    /\ LET names == SlotNames(parsed.ss)
       IN  /\ Len(names) >= 2
           /\ names[1] \in DOMAIN paramValues
           /\ names[1] # output.err.name
           /\ \E i \in 1..Len(parsed.ss.Params) :
                /\ parsed.ss.Params[i].Name = output.err.name
                /\ Len(parsed.ss.Params[i].DefaultValues) > 0

\* C12: no partial result on error: a failed ParseSpell returns the nil
\* segment sequence and a failed Reconstruct returns the empty string, also
\* when earlier slots had values.
C12_NoPartialResult ==
    /\ (ParseReturned /\ parsed.err # NoError) => parsed.ss = NilSegments
    /\ (pc = "reconstructed" /\ output.err # NoError) => output.out = <<>>

\* Reconstruct failed after substituting the first slot
C12_Witness ==
    /\ pc = "reconstructed"
    /\ output.err.kind = "MissingValue"
    /\ output.out = <<>>
    /\ Len(parsed.ss.ParamIndices) >= 2
    /\ SlotNames(parsed.ss)[1] \in DOMAIN paramValues

\* a parse failed with the duplicate-default error
ParseFailureReached ==
    ParseReturned /\ parsed.err.kind = "DuplicateDefault" /\ parsed.ss = NilSegments

\* C13: a Reconstruct call leaves the SpellSegments it is called on
\* unchanged, on success and on failure, and after any sequence of calls the
\* result of a call is the one given by the original parse result and the
\* mapping of that call.
C13_ReconstructLeavesReceiver ==
    /\ [][pc' = "reconstructed" => parsed' = parsed]_vars
    /\ [](pc = "reconstructed" =>
            LET original == ParseSpell(spell)
            IN  /\ parsed = original
                /\ output = Reconstruct(original.ss, paramValues))

\* a second Reconstruct call, with another mapping, after one that substituted
C13_Witness ==
    /\ pc = "reconstructed"
    /\ Len(parsed.ss.ParamIndices) >= 2
    /\ output.err = NoError
    /\ output.out # Join(parsed.ss.Segments)
    /\ parsed = ParseSpell(spell)

\* the ranges <<lo, hi>> of the raw string s that the grammar does not take
\* for a marker: a '<' with no '>' after it, an empty marker '<>', and a
\* '<' body '>' whose body starts or ends with white space
NonMarkerRanges(s) ==
    { r \in (0..Len(s)) \X (0..Len(s)) :
        /\ r[1] < r[2]
        /\ s[r[1] + 1] = "<"
        /\ \/ /\ r[2] = r[1] + 1
              /\ \A i \in (r[1] + 2)..Len(s) : s[i] # ">"
           \/ /\ r[2] = r[1] + 2
              /\ s[r[2]] = ">"
           \/ /\ r[2] >= r[1] + 3
              /\ s[r[2]] = ">"
              /\ ~HasAngle(Slice(s, r[1] + 1, r[2] - 1))
              /\ (IsReSpace(s[r[1] + 2]) \/ IsReSpace(s[r[2] - 1])) }

\* C14: the duplicate-default error is the only failure of ParseSpell: a
\* spell in which no name seen before recurs with defaults parses, and an
\* unterminated '<', an empty marker '<>' or a body that starts or ends
\* with white space is no marker: no match takes any of its characters.
C14_OnlyDuplicateDefaultFails ==
    ParseReturned =>
        /\ parsed.err.kind \in {"nil", "DuplicateDefault"}
        /\ RepeatsWithDefaults = {} => parsed.err = NoError
        /\ LET m == Matches
           IN  \A r \in NonMarkerRanges(spell) :
                   \A k \in 1..Len(m) : m[k][2] <= r[1] \/ m[k][1] >= r[2]

\* the text before the first "=" of str, the whole of str without "="
BeforeEquals(str) ==
    LET at == { i \in 1..Len(str) : str[i] = "=" }
    IN  IF at = {} THEN str ELSE SubSeq(str, 1, Min(at) - 1)

\* dv is the text after the first "=" of str cut at every ";", in order;
\* no list when str has no "="
DefaultsOf(str, dv) ==
    LET at == { i \in 1..Len(str) : str[i] = "=" }
    IN  IF at = {} THEN dv = <<>>
        ELSE /\ Len(dv) >= 1
             /\ \A d \in 1..Len(dv) : \A i \in 1..Len(dv[d]) : dv[d][i] # ";"
             /\ JoinDefaults(dv) = SubSeq(str, Min(at) + 1, Len(str))

TrimmedName(body) == TrimSpace(BeforeEquals(TrimSpace(body)))

\* in a successful parse the name of every marker is the text before the
\* first '=' of its body and the defaults recorded for a name are those of
\* the body of its first marker; trimmed says whether the white space around
\* the body and around the name is removed first
NameAndDefaultsFrom(trimmed) ==
    ParseSucceeded =>
        LET m == Matches
            names == SlotNames(parsed.ss)
        IN  /\ Len(names) = Len(m)
            /\ \A k \in 1..Len(m) :
                 LET body == Slice(spell, m[k][3], m[k][4])
                     name == IF trimmed THEN TrimmedName(body) ELSE BeforeEquals(body)
                     text == IF trimmed THEN TrimSpace(body) ELSE body
                 IN  /\ names[k] = name
                     /\ (\A j \in 1..(k - 1) : names[j] # names[k]) =>
                          \E i \in 1..Len(parsed.ss.Params) :
                              /\ parsed.ss.Params[i].Name = names[k]
                              /\ DefaultsOf(text, parsed.ss.Params[i].DefaultValues)

\* C15 as stated: the name is the text before the first '=' of the body,
\* the defaults are the text after that '=' split on every ';'.
C15_NameIsTextBeforeEquals == NameAndDefaultsFrom(FALSE)

\* C15, amended: the name is the text before the first '=' of the body with
\* the surrounding white space removed, the defaults are the text after
\* that first '=' of the trimmed body split on every ';' in order (later
\* '=' stay inside the values), and a body without '=' has no defaults.
C15_NameAndDefaultsSplit == NameAndDefaultsFrom(TRUE)

\* a parse succeeded on a marker with a blank before its first '='
C15_Witness ==
    /\ ParseSucceeded
    /\ Len(Matches) = 1
    /\ LET body == Slice(spell, Matches[1][3], Matches[1][4])
       IN  /\ \E i \in 2..Len(body) : body[i] = "=" /\ body[i - 1] = " "
           /\ \A i \in 1..Len(body) : body[i] # VT
           /\ BeforeEquals(body) # TrimmedName(body)
           /\ parsed.ss.Params[1].Name = TrimmedName(body)
           /\ Len(parsed.ss.Params[1].DefaultValues) = 1

(***************************************************************************)
(* The prompt flow and the cast flow (SpecCast).                           *)
(***************************************************************************)
\* the prompt loop is over and its mapping was handed to Reconstruct
MappingHandedOver ==
    /\ pc \in {"casting", "returned"}
    /\ promptAt > 0
    /\ castErr # ReadError

\* the response to prompt number i: the i-th line of the input, nothing if
\* the input ended before it
Answer(i) == IF i <= Len(stdin.lines) THEN TrimSpace(stdin.lines[i]) ELSE <<>>

\* C16: for every sequence of responses, also one that ends before every
\* parameter was answered, the mapping handed to reconstruction has an entry
\* for every parameter with at least one default: the trimmed response if it
\* is not empty, else the parameter's first default.
C16_DefaultedParamsHaveEntry ==
    MappingHandedOver =>
        \A i \in 1..Len(parsed.ss.Params) :
            LET param == parsed.ss.Params[i]
            IN  Len(param.DefaultValues) > 0 =>
                    /\ param.Name \in DOMAIN paramValues
                    /\ paramValues[param.Name] =
                           IF Answer(i) # <<>> THEN Answer(i) ELSE param.DefaultValues[1]

\* C17: the shell is started at most once, only after a successful parse
\* and, if the spell has parameters, a successful reconstruction of the
\* prompted mapping; it runs exactly the reconstruction result, or the raw
\* spell if there are no parameters; a cast that returned an error ran
\* nothing.
C17_ExecOnlyAfterSuccess ==
    LET original == ParseSpell(spell)
    IN  /\ executed # <<>> =>
               /\ Len(executed) = 1
               /\ original.err = NoError
               /\ IF Len(original.ss.Params) > 0
                  THEN LET r == Reconstruct(original.ss, paramValues)
                       IN  r.err = NoError /\ executed[1] = r.out
                  ELSE executed[1] = spell
        /\ (original.err # NoError /\ pc # "cast") => executed = <<>>
        /\ castErr # NoError => executed = <<>>

\* a spell with a parameter was run as reconstructed from the responses
C17_Witness ==
    /\ pc = "returned"
    /\ Len(executed) = 1
    /\ Len(parsed.ss.Params) > 0
    /\ executed[1] = output.out
    /\ executed[1] # spell
    /\ \E n \in DOMAIN paramValues : paramValues[n] = <<"Y">>

\* a cast was given up on a parse error, another on a missing value
CastAbortedOnParse == pc = "returned" /\ castErr.kind = "DuplicateDefault"

CastAbortedOnMissing == pc = "returned" /\ castErr.kind = "MissingValue"

(***************************************************************************)
(* Concurrent calls (SpecConc).                                            *)
(***************************************************************************)
\* C18: ParseSpell and Reconstruct share no mutable state: whatever the
\* interleaving of the calls, each ParseSpell call returns what ParseSpell
\* of its string returns alone, each Reconstruct call returns what
\* Reconstruct of the SpellSegments and its mapping returns alone, and the
\* shared SpellSegments stays as it was parsed.
C18_CallsReturnAsAlone ==
    LET original == ParseSpell(spell)
    IN  /\ parsed = original
        /\ \A w \in Parsers :
               procs[w].pc = "done" => procs[w].ret = ParseSpell(procs[w].s)
        /\ \A w \in Reconstructors :
               procs[w].pc = "done" => procs[w].ret = Reconstruct(original.ss, procs[w].values)

\* a Reconstruct call went through while another one on the same
\* SpellSegments, with another mapping, and a ParseSpell call were each in
\* the middle of their loops, and a second ParseSpell call failed meanwhile
C18_Witness ==
    /\ procs["r1"].pc = "loop" /\ procs["r1"].k = 2
    /\ Len(parsed.ss.ParamIndices) = 2
    /\ procs["r2"].pc = "done" /\ procs["r2"].ret.err = NoError
    /\ procs["r2"].ret.out # spell
    /\ procs["p1"].pc = "loop" /\ procs["p1"].k = 2
    /\ procs["p2"].pc = "done" /\ procs["p2"].ret.err # NoError

(***************************************************************************)
(* The spell path (SpecFiles).                                             *)
(***************************************************************************)
\* the result of SanitizeFilename in the last add: the filename without
\* its ".txt"
Sanitized == SubSeq(added.filename, 1, Len(added.filename) - 1)

\* C19: SanitizeFilename ignores the spaces that surround the name: a name
\* with a leading or a trailing space around a first and a last character
\* that are kept yields a result with no leading and no trailing underscore,
\* and the name of the test yields the result the test wants; for every
\* name the result is lower-case and made of a-z, 0-9, _ and - only.
C19_SurroundingSpacesIgnored ==
    added.n > 0 =>
        LET name == added.entry.Name
            core == TrimSpace(name)
            result == Sanitized
        IN  /\ \A i \in 1..Len(result) : IsFilenameChar(result[i])
            /\ ( /\ name # core
                 /\ core # <<>>
                 /\ IsAlnum(ToLowerChar(core[1]))
                 /\ IsAlnum(ToLowerChar(core[Len(core)])) )
               => (result # <<>> /\ result[1] # "_" /\ result[Len(result)] # "_")
            /\ name = TestName => result = TestWant

\* the file the add is about
Target(entry) == SanitizeFilename(entry.Name) \o <<".txt">>

\* C20: an add never overwrites a record: every file of the spell path is
\* still there with the same content after an add, and an add whose target
\* file exists returns the 'already exists' error and changes no file, also
\* when the file was written for another name.
C20_AddNeverOverwrites ==
    [][ /\ \A f \in DOMAIN store : f \in DOMAIN store' /\ store'[f] = store[f]
        /\ (added'.n > added.n /\ Target(added'.entry) \in DOMAIN store)
               => (added'.err = "already exists" /\ store' = store) ]_vars

\* the second add was refused: its name differs from the name the file was
\* written for, and its spell from the spell in the file
C20_Witness ==
    /\ added.n = 2
    /\ added.err = "already exists"
    /\ added.filename \in DOMAIN store
    /\ store[added.filename].Name # added.entry.Name
    /\ store[added.filename].Spell # added.entry.Spell

\* the number of Tab presses among the keys read
TabPresses == Cardinality({ i \in 1..Len(keys) : keys[i] = Tab })

\* promptWithTabCycling has returned to mainCommand
PromptReturned == pc \in {"returned", "action"}

\* the key that ended the prompt, 0 when no key was read
LastKey == IF keys = <<>> THEN 0 ELSE keys[Len(keys)]

\* C21: for n > 0 options the highlighted index is within 0..n-1 and is the
\* number of Tab presses modulo n whatever other keys were read; a return
\* after Enter gives options[k mod n] and no error, a return after Escape
\* gives the empty string and no error; with no options the call returns
\* the error 'no options provided' and the terminal, the signal channel and
\* the handler are untouched.
C21_TabCyclesThroughOptions ==
    LET n == Len(options)
        k == TabPresses
    IN  /\ n > 0 => (currentIndex \in 0..(n - 1) /\ currentIndex = k % n)
        /\ (n > 0 /\ PromptReturned /\ LastKey \in {CR, LF})
               => selected = [value |-> options[(k % n) + 1], err |-> "nil"]
        /\ (n > 0 /\ PromptReturned /\ LastKey = Esc)
               => selected = [value |-> "", err |-> "nil"]
        /\ (n = 0 /\ pc # "main")
               => /\ selected = [value |-> "", err |-> "no options provided"]
                  /\ term = CookedTerm
                  /\ sigc = NoChan
                  /\ handler = "none"

\* Enter after the highlight went round the options once, with an ignored
\* key in between
C21_Witness ==
    /\ PromptReturned
    /\ Len(options) >= 2
    /\ TabPresses >= Len(options)
    /\ \E i \in 1..Len(keys) : keys[i] \notin {Tab, CR, LF, Esc}
    /\ LastKey \in {CR, LF}
    /\ selected = [value |-> options[(TabPresses % Len(options)) + 1], err |-> "nil"]

\* promptWithTabCycling is past the check of the options
PromptEntered == sigc.made

\* the process is over: it returned from main, exited with 130, or panicked
ProcessOver == proc # "running"

\* C22: once the prompt is past the check of the options the terminal is
\* restored on every way out: whenever the function has returned or the
\* process is over, restoreTerminal has run.
C22_TerminalRestoredOnEveryWayOut ==
    (PromptEntered /\ (PromptReturned \/ ProcessOver)) => term.restores >= 1

\* C25: no signal is delivered to the signal channel after close(c): the
\* runtime never sends on the closed channel, neither during the deferred
\* cleanup nor while the chosen action runs.
C25_NoSendOnClosedChannel ==
    ~(sigc.closed /\ proc = "panicked")

\* the 0-based segment indices that are slots
SlotIndices ==
    { parsed.ss.ParamIndices[i] : i \in 1..Len(parsed.ss.ParamIndices) }

\* the 0-based segment indices that are literal text
LiteralIndices == (0..(Len(parsed.ss.Segments) - 1)) \ SlotIndices

\* C23: in a successful parse of a spell with one marker or more,
\* ParamIndices is strictly increasing and within 0..len(Segments)-1, the
\* segment at each parameter index is the Name of exactly one entry of
\* Params, every literal segment is non-empty and no two literal segments
\* are next to each other.
C23_SegmentsWellFormed ==
    (ParseSucceeded /\ Len(Matches) > 0) =>
        LET segments == parsed.ss.Segments
            paramIndices == parsed.ss.ParamIndices
            params == parsed.ss.Params
            literals == LiteralIndices
        IN  /\ \A i \in 1..Len(paramIndices) : \A j \in 1..Len(paramIndices) :
                   i < j => paramIndices[i] < paramIndices[j]
            /\ \A i \in 1..Len(paramIndices) :
                   /\ paramIndices[i] \in 0..(Len(segments) - 1)
                   /\ Cardinality({ p \in 1..Len(params) :
                          params[p].Name = segments[paramIndices[i] + 1] }) = 1
            /\ \A j \in literals : segments[j + 1] # <<>>
            /\ \A j \in literals : (j + 1) \notin literals

\* a parse succeeded on a spell with two markers next to each other, one
\* name for both, and literal text
C23_Witness ==
    /\ ParseSucceeded
    /\ Len(Matches) >= 2
    /\ \E k \in 1..(Len(Matches) - 1) : Matches[k][2] = Matches[k + 1][1]
    /\ Len(parsed.ss.Params) < Len(parsed.ss.ParamIndices)
    /\ LiteralIndices # {}

\* the mapping without its entries for names that are no parameter
ParamEntries(values, ss) ==
    [n \in DOMAIN values \cap ParamNames(ss) |-> values[n]]

\* the segments with the value of its name in place of each slot, taken
\* once and as it is, and every literal segment kept
SubstitutedOnce(ss, values) ==
    LET slots == { ss.ParamIndices[i] : i \in 1..Len(ss.ParamIndices) }
    IN  [i \in 1..Len(ss.Segments) |->
            IF (i - 1) \in slots THEN values[ss.Segments[i]] ELSE ss.Segments[i]]

\* C24: a successful Reconstruct returns the segments joined with each slot
\* replaced once by the value mapped to its name, verbatim: a value that is
\* a parameter name or marker text is not substituted again and literal
\* segments equal to a parameter name are kept; and the result, success or
\* error, is the one for the mapping without its entries for names that
\* are no parameter.
C24_OneSubstitutionPerSlot ==
    pc = "reconstructed" =>
        /\ output.err = NoError
               => output.out = Join(SubstitutedOnce(parsed.ss, paramValues))
        /\ output = Reconstruct(parsed.ss, ParamEntries(paramValues, parsed.ss))

\* a spell with a literal segment equal to a parameter name was
\* reconstructed with a value that is the other parameter's name, a value
\* that is marker text, and an entry for a name that is no parameter
C24_Witness ==
    /\ pc = "reconstructed"
    /\ output.err = NoError
    /\ LiteralIndices # {}
    /\ \A j \in LiteralIndices : parsed.ss.Segments[j + 1] \in ParamNames(parsed.ss)
    /\ Cardinality(ParamNames(parsed.ss)) = 2
    /\ \E n \in ParamNames(parsed.ss) :
           /\ paramValues[n] \in ParamNames(parsed.ss) \ {n}
           /\ \E o \in ParamNames(parsed.ss) \ {n} : paramValues[o][1] = "<"
    /\ DOMAIN paramValues \ ParamNames(parsed.ss) # {}
    /\ output.out # spell

====
